---- MODULE Spec2Model ----
(* generate-config.js: scan base/, browsers/ and included/, form one workflow *)
(* block per category and write circle.yml.                                   *)
(* Text is modelled as a sequence of tokens: a token is either a literal      *)
(* fragment of the source (a TLA+ string) or one character of a tag. Joining  *)
(* texts is \o. Tags are sequences of one-character strings, so that the      *)
(* regular expressions and the version parser work on their characters.       *)
EXTENDS Integers, Sequences, FiniteSets, TLC

VARIABLES
  fs,            \* the directories base/, browsers/, included/ and their subdirectories
  eol,           \* os.EOL of the platform
  file,          \* circle.yml: whether it exists, and its text
  before,        \* circle.yml as the current run found it
  pc,            \* where the run is: scanBase .. write, done, aborted; idle between runs
  base,          \* main: base, the images scanned from base/*
  browsers,      \* main: browsers
  included,      \* main: included
  baseText,      \* writeConfigFile: base
  browsersText,  \* writeConfigFile: browsers
  includedText,  \* writeConfigFile: included
  console,       \* what console.log has printed in the run
  error,         \* the message of the Error that ended the run
  writes,        \* the calls of fs.writeFileSync in the run
  runs           \* the runs ended so far: outcome, circle.yml before and after, message

vars == <<fs, eol, file, before, pc, base, browsers, included,
          baseText, browsersText, includedText, console, error, writes, runs>>

(* ---------------------------------------------------------------- bounds *)
\* total number of subdirectories under the three roots
MaxDirs == 2
\* number of runs of the script over the same directory tree
MaxRuns == 2

(* ------------------------------------------------------- sequence helpers *)
Digits == {"0","1","2","3","4","5","6","7","8","9"}

Letters ==
  {"a","b","c","d","e","f","g","h","i","j","k","l","m",
   "n","o","p","q","r","s","t","u","v","w","x","y","z",
   "A","B","C","D","E","F","G","H","I","J","K","L","M",
   "N","O","P","Q","R","S","T","U","V","W","X","Y","Z"}

\* the characters String.prototype.trim removes
Whitespace == {" ", "\t", "\n", "\r"}

IsDigit(c) == c \in Digits

MinOf(S) == CHOOSE x \in S : \A y \in S : x <= y

\* str.indexOf(c): the first position of character c in s, 0 when absent
IndexOf(s, c) ==
  LET hits == {i \in 1..Len(s) : s[i] = c}
  IN IF hits = {} THEN 0 ELSE MinOf(hits)

\* str.split(sep) for a one-character separator
RECURSIVE Split(_, _)
Split(s, sep) ==
  LET i == IndexOf(s, sep)
  IN IF i = 0 THEN <<s>>
     ELSE <<SubSeq(s, 1, i - 1)>> \o Split(SubSeq(s, i + 1, Len(s)), sep)

\* array.join('') of a sequence of texts
RECURSIVE Join(_)
Join(texts) ==
  IF texts = <<>> THEN <<>> ELSE Head(texts) \o Join(Tail(texts))

\* the decimal value of a sequence of digit characters (JavaScript's +m[i])
DigitValue(c) ==
  CASE c = "0" -> 0 [] c = "1" -> 1 [] c = "2" -> 2 [] c = "3" -> 3 [] c = "4" -> 4
    [] c = "5" -> 5 [] c = "6" -> 6 [] c = "7" -> 7 [] c = "8" -> 8 [] c = "9" -> 9

RECURSIVE ToNumber(_)
ToNumber(ds) ==
  IF ds = <<>> THEN 0
  ELSE ToNumber(SubSeq(ds, 1, Len(ds) - 1)) * 10 + DigitValue(ds[Len(ds)])

\* String.prototype.trim on a text: whitespace tokens at both ends are dropped
RECURSIVE TrimLeft(_)
TrimLeft(s) ==
  IF s # <<>> /\ Head(s) \in Whitespace THEN TrimLeft(Tail(s)) ELSE s

RECURSIVE TrimRight(_)
TrimRight(s) ==
  IF s # <<>> /\ s[Len(s)] \in Whitespace
  THEN TrimRight(SubSeq(s, 1, Len(s) - 1)) ELSE s

Trim(s) == TrimRight(TrimLeft(s))

(* ------------------------------------------------------------ the preamble *)
\* the template literal opens and closes with a line break; everything between
\* (version header, orbs, commands, jobs, the lint workflow) is one token
preamble ==
  << "\n",
     "# WARNING: this file is automatically generated by generate-config.js ... workflows:\n  version: 2\n  lint:\n    jobs:\n      - lint-markdown",
     "\n" >>

(* ------------------------------------------------------------ skip lists *)
\* formBaseWorkflow: images that already have been built
BaseSkipImages ==
  { <<"6">>
  , <<"8">>
  , <<"8",".","0",".","0">>
  , <<"8",".","1","5",".","1">>
  , <<"8",".","1","6",".","0">>
  , <<"8",".","2",".","1">>
  , <<"8",".","9",".","3">>
  , <<"8",".","9",".","3","-","n","p","m","-","6",".","1","0",".","1">>
  , <<"1","0">>
  , <<"1","0",".","0",".","0">>
  , <<"1","0",".","1","1",".","0">>
  , <<"1","0",".","1","5",".","3">>
  , <<"1","0",".","1","6",".","0">>
  , <<"1","0",".","1","6",".","3">>
  , <<"1","0",".","1","8",".","0">>
  , <<"1","0",".","1","8",".","1">>
  , <<"1","0",".","2",".","1">>
  , <<"1","1",".","1","3",".","0">>
  , <<"1","2",".","0",".","0">>
  , <<"1","2",".","1",".","0">>
  , <<"1","2",".","1","2",".","0">>
  , <<"1","2",".","1","3",".","0">>
  , <<"1","2",".","1","4",".","0">>
  , <<"1","2",".","1","4",".","1">>
  , <<"1","2",".","1","6",".","0">>
  , <<"1","2",".","1","6",".","1">>
  , <<"1","2",".","1","6",".","2">>
  , <<"1","2",".","1","8",".","0">>
  , <<"1","2",".","1","8",".","2">>
  , <<"1","2",".","4",".","0">>
  , <<"1","2",".","6",".","0">>
  , <<"1","2",".","8",".","1">>
  , <<"1","3",".","1",".","0">>
  , <<"1","3",".","3",".","0">>
  , <<"1","3",".","6",".","0">>
  , <<"1","3",".","8",".","0">>
  , <<"1","4",".","0",".","0">>
  , <<"c","e","n","t","o","s","7">>
  , <<"c","e","n","t","o","s","7","-","1","2",".","4",".","0">>
  , <<"u","b","u","n","t","u","1","6">>
  , <<"u","b","u","n","t","u","1","6","-","1","2",".","1","3",".","1">>
  , <<"u","b","u","n","t","u","1","6","-","8">>
  , <<"u","b","u","n","t","u","1","8","-","n","o","d","e","1","2",".","1","4",".","1">>
  , <<"u","b","u","n","t","u","1","9","-","n","o","d","e","1","2",".","1","4",".","1">>
  }

\* formBrowserWorkflow: images that cannot be tested
BrowserSkipImages ==
  { <<"c","h","r","o","m","e","6","3","-","f","f","5","7">>
  , <<"c","h","r","o","m","e","6","5","-","f","f","5","7">>
  , <<"c","h","r","o","m","e","6","7">>
  , <<"c","h","r","o","m","e","6","7","-","f","f","5","7">>
  , <<"c","h","r","o","m","e","6","9">>
  , <<"n","o","d","e","8",".","1","5",".","1","-","c","h","r","o","m","e","7","3">>
  , <<"n","o","d","e","8",".","2",".","1","-","c","h","r","o","m","e","7","3">>
  , <<"n","o","d","e","8",".","9",".","3","-","c","h","r","o","m","e","7","3">>
  , <<"n","o","d","e","8",".","9",".","3","-","n","p","m","6",".","1","0",".","1","-","c","h","r","o","m","e","7","5">>
  , <<"n","o","d","e","8",".","9",".","3","-","n","p","m","6",".","1","0",".","1","-","c","h","r","o","m","e","7","6","-","f","f","6","8">>
  , <<"n","o","d","e","1","0",".","1","1",".","0","-","c","h","r","o","m","e","7","5">>
  , <<"n","o","d","e","1","0",".","1","6",".","0","-","c","h","r","o","m","e","7","6">>
  , <<"n","o","d","e","1","0",".","1","6",".","0","-","c","h","r","o","m","e","7","7">>
  , <<"n","o","d","e","1","0",".","1","6",".","0","-","c","h","r","o","m","e","7","7","-","f","f","7","1">>
  , <<"n","o","d","e","1","0",".","1","6",".","3","-","c","h","r","o","m","e","8","0","-","f","f","7","3">>
  , <<"n","o","d","e","1","0",".","2",".","1","-","c","h","r","o","m","e","7","4">>
  , <<"n","o","d","e","1","1",".","1","3",".","0","-","c","h","r","o","m","e","7","3">>
  , <<"n","o","d","e","1","2",".","0",".","0","-","c","h","r","o","m","e","7","3">>
  , <<"n","o","d","e","1","2",".","0",".","0","-","c","h","r","o","m","e","7","3","-","f","f","6","8">>
  , <<"n","o","d","e","1","2",".","0",".","0","-","c","h","r","o","m","e","7","5">>
  , <<"n","o","d","e","1","2",".","1","3",".","0","-","c","h","r","o","m","e","7","8","-","f","f","7","0">>
  , <<"n","o","d","e","1","2",".","1","3",".","0","-","c","h","r","o","m","e","7","8","-","f","f","7","0","-","b","r","a","v","e","7","8">>
  , <<"n","o","d","e","1","2",".","1","3",".","0","-","c","h","r","o","m","e","8","0","-","f","f","7","3">>
  , <<"n","o","d","e","1","2",".","1","3",".","0","-","c","h","r","o","m","e","8","0","-","f","f","7","4">>
  , <<"n","o","d","e","1","2",".","1","4",".","0","-","c","h","r","o","m","e","7","9","-","f","f","7","1">>
  , <<"n","o","d","e","1","2",".","1","4",".","1","-","c","h","r","o","m","e","8","3","-","f","f","7","7">>
  , <<"n","o","d","e","1","2",".","1","6",".","1","-","c","h","r","o","m","e","8","0","-","f","f","7","3">>
  , <<"n","o","d","e","1","2",".","1","6",".","2","-","c","h","r","o","m","e","8","1","-","f","f","7","5">>
  , <<"n","o","d","e","1","2",".","1","8",".","0","-","c","h","r","o","m","e","8","3","-","f","f","7","7">>
  , <<"n","o","d","e","1","2",".","4",".","0","-","c","h","r","o","m","e","7","6">>
  , <<"n","o","d","e","1","2",".","6",".","0","-","c","h","r","o","m","e","7","5">>
  , <<"n","o","d","e","1","2",".","6",".","0","-","c","h","r","o","m","e","7","7">>
  , <<"n","o","d","e","1","2",".","8",".","1","-","c","h","r","o","m","e","7","8","-","f","f","7","0">>
  , <<"n","o","d","e","1","2",".","8",".","1","-","c","h","r","o","m","e","8","0","-","f","f","7","2">>
  , <<"n","o","d","e","1","3",".","1",".","0","-","c","h","r","o","m","e","7","8","-","f","f","7","0">>
  , <<"n","o","d","e","1","3",".","3",".","0","-","c","h","r","o","m","e","7","9","-","f","f","7","0">>
  , <<"n","o","d","e","1","3",".","6",".","0","-","c","h","r","o","m","e","8","0","-","f","f","7","2">>
  }

(* ------------------------------------------------------ formBaseWorkflow *)
BaseIsSkipped(tag) == tag \in BaseSkipImages

\* variant of BaseIsIncluded: the skip list is asked about the image name
BaseIsIncludedByName(imageAndTag) == ~BaseIsSkipped(imageAndTag.name)

BaseIsIncluded(imageAndTag) == ~BaseIsSkipped(imageAndTag.tag)

\* variant of BaseNoNodeCheck: only one of the two custom images is named
BaseNoNodeCheckLibgbmOnly(tag) ==
  tag = <<"1","2",".","0",".","0","-","l","i","b","g","b","m">>

\* do not check Node versions in some custom images
BaseNoNodeCheck(tag) ==
  \/ tag = <<"1","2",".","0",".","0","-","l","i","b","g","b","m">>
  \/ tag = <<"m","a","n","j","a","r","o","-","1","4",".","1","2",".","0">>

BaseJob(imageAndTag) ==
  << "      - build-base-image:\n", "          name: \"base " >>
    \o imageAndTag.tag \o << "\"\n", "          dockerTag: \"" >>
    \o imageAndTag.tag \o << "\"\n" >>
    \o (IF BaseNoNodeCheck(imageAndTag.tag)
        THEN << "          checkNodeVersion: false\n" >> ELSE << >>)

BaseWorkflowName == << "  build-base-images:\n", "    jobs:\n" >>

formBaseWorkflow(baseImages) ==
  LET kept == SelectSeq(baseImages, BaseIsIncluded)
      yml  == [i \in 1..Len(kept) |-> BaseJob(kept[i])]
  IN BaseWorkflowName \o Join(yml)

(* ------------------------------------------------------ browser versions *)
fullChromeVersion(version) == << "Google Chrome " >> \o version

fullFirefoxVersion(version) == << "Mozilla Firefox " >> \o version

fullEdgeVersion(version) == << "Microsoft Edge " >> \o version

\* s has the literal lit at position i
LiteralAt(s, i, lit) ==
  /\ i + Len(lit) - 1 <= Len(s)
  /\ SubSeq(s, i, i + Len(lit) - 1) = lit

\* (\d+) at position i of s: the longest run of digits starting there
RECURSIVE DigitRun(_, _)
DigitRun(s, i) ==
  IF i <= Len(s) /\ IsDigit(s[i]) THEN << s[i] >> \o DigitRun(s, i + 1) ELSE << >>

\* /lit(\d+)/.exec(s): capture group 1 of the leftmost match, << >> for null
RegExpExec(lit, s) ==
  LET hits == {i \in 1..Len(s) : LiteralAt(s, i, lit) /\ DigitRun(s, i + Len(lit)) # << >>}
  IN IF hits = {} THEN << >> ELSE DigitRun(s, MinOf(hits) + Len(lit))

\* each returns the full version text, << >> for null
findChromeVersion(tag) ==
  LET m == RegExpExec(<<"c","h","r","o","m","e">>, tag)
  IN IF m # << >> THEN fullChromeVersion(m) ELSE << >>

findFirefoxVersion(tag) ==
  LET m == RegExpExec(<<"-","f","f">>, tag)
  IN IF m # << >> THEN fullFirefoxVersion(m) ELSE << >>

findEdgeVersion(tag) ==
  LET m == RegExpExec(<<"-","e","d","g","e">>, tag)
  IN IF m # << >> THEN fullEdgeVersion(m) ELSE << >>

(* --------------------------------------------------- formBrowserWorkflow *)
BrowserIsSkipped(tag) == tag \in BrowserSkipImages

\* variant of BrowserIsIncluded: the skip list is not consulted
BrowserIsIncludedAlways(imageAndTag) == TRUE

BrowserIsIncluded(imageAndTag) == ~BrowserIsSkipped(imageAndTag.tag)

\* variant of foundBrowser: the result of the three searches is not looked at
foundBrowserUnchecked(tag) == TRUE

\* chromeVersion || firefoxVersion || edgeVersion
foundBrowser(tag) ==
  \/ findChromeVersion(tag) # << >>
  \/ findFirefoxVersion(tag) # << >>
  \/ findEdgeVersion(tag) # << >>

\* variant of BrowserErrorMessage: the tag is left out of the message
BrowserErrorMessageNoTag(tag) ==
  << "Cannot find any ", "browsers", " from image tag" >>

\* new Error(`Cannot find any browsers from image tag "${imageAndTag.tag}"`)
BrowserErrorMessage(tag) ==
  << "Cannot find any ", "browsers", " from image tag \"" >> \o tag \o << "\"" >>

\* variant of BrowserJob: the first browser found is the only one reported
BrowserJobFirstOnly(imageAndTag) ==
  << "      - build-browser-image:\n", "          name: \"browsers " >>
    \o imageAndTag.tag \o << "\"\n", "          dockerTag: \"" >>
    \o imageAndTag.tag \o << "\"\n" >>
    \o (IF findChromeVersion(imageAndTag.tag) # << >>
        THEN << "          chromeVersion: \"" >> \o findChromeVersion(imageAndTag.tag)
               \o << "\"\n" >>
        ELSE IF findFirefoxVersion(imageAndTag.tag) # << >>
        THEN << "          firefoxVersion: \"" >> \o findFirefoxVersion(imageAndTag.tag)
               \o << "\"\n" >>
        ELSE << "          edgeVersion: \"" >> \o findEdgeVersion(imageAndTag.tag)
               \o << "\"\n" >>)

BrowserJob(imageAndTag) ==
  LET tag == imageAndTag.tag
      chromeVersion  == findChromeVersion(tag)
      firefoxVersion == findFirefoxVersion(tag)
      edgeVersion    == findEdgeVersion(tag)
  IN << "      - build-browser-image:\n", "          name: \"browsers " >>
       \o tag \o << "\"\n", "          dockerTag: \"" >> \o tag \o << "\"\n" >>
       \o (IF chromeVersion # << >>
           THEN << "          chromeVersion: \"" >> \o chromeVersion \o << "\"\n" >>
           ELSE << >>)
       \o (IF firefoxVersion # << >>
           THEN << "          firefoxVersion: \"" >> \o firefoxVersion \o << "\"\n" >>
           ELSE << >>)
       \o (IF edgeVersion # << >>
           THEN << "          edgeVersion: \"" >> \o edgeVersion \o << "\"\n" >>
           ELSE << >>)

BrowserWorkflowName == << "  build-browser-images:\n", "    jobs:\n" >>

\* the result of the call: the text returned, or the message of the Error thrown
\* by the first surviving tag in which no browser is found
formBrowserWorkflow(browserImages) ==
  LET kept  == SelectSeq(browserImages, BrowserIsIncluded)
      fails == {i \in 1..Len(kept) : ~foundBrowser(kept[i].tag)}
      yml   == [i \in 1..Len(kept) |-> BrowserJob(kept[i])]
  IN IF fails # {}
     THEN [threw |-> TRUE, text |-> << >>,
           message |-> BrowserErrorMessage(kept[MinOf(fails)].tag)]
     ELSE [threw |-> FALSE, text |-> BrowserWorkflowName \o Join(yml), message |-> << >>]

(* ------------------------------------------------------------- semver.lt *)
\* the semver package: new SemVer(version) matches the trimmed version against
\* v?MAIN(-PRERELEASE)?(+BUILD)? and throws TypeError when it does not match
IsNumericIdentifier(s) ==
  /\ s # << >>
  /\ \A i \in 1..Len(s) : IsDigit(s[i])
  /\ (Len(s) = 1 \/ s[1] # "0")

IsIdentifierChar(c) == c \in Digits \cup Letters \cup {"-"}

IsPrereleaseIdentifier(s) ==
  /\ s # << >>
  /\ \A i \in 1..Len(s) : IsIdentifierChar(s[i])
  /\ ((\A i \in 1..Len(s) : IsDigit(s[i])) => IsNumericIdentifier(s))

IsBuildIdentifier(s) ==
  /\ s # << >>
  /\ \A i \in 1..Len(s) : IsIdentifierChar(s[i])

\* the optional leading v
StripV(t) == IF t # << >> /\ Head(t) = "v" THEN Tail(t) ELSE t

\* the text before the first occurrence of character c, all of it when absent
Before(s, c) == IF IndexOf(s, c) = 0 THEN s ELSE SubSeq(s, 1, IndexOf(s, c) - 1)

\* the identifiers after the first occurrence of c, none when absent
IdentifiersAfter(s, c) ==
  IF IndexOf(s, c) = 0 THEN << >> ELSE Split(SubSeq(s, IndexOf(s, c) + 1, Len(s)), ".")

SemVerFrom(version, main, pre, build) ==
  IF /\ Len(main) = 3
     /\ \A i \in 1..Len(main) : IsNumericIdentifier(main[i])
     /\ \A i \in 1..Len(pre) : IsPrereleaseIdentifier(pre[i])
     /\ \A i \in 1..Len(build) : IsBuildIdentifier(build[i])
  THEN [threw |-> FALSE, major |-> ToNumber(main[1]), minor |-> ToNumber(main[2]),
        patch |-> ToNumber(main[3]), prerelease |-> pre, message |-> << >>]
  ELSE [threw |-> TRUE, major |-> 0, minor |-> 0, patch |-> 0, prerelease |-> << >>,
        message |-> << "Invalid Version: " >> \o version]

\* MAIN is what precedes the first "-" of the part before the first "+"
SemVerCore(version, core, build) ==
  SemVerFrom(version, Split(Before(core, "-"), "."), IdentifiersAfter(core, "-"), build)

SemVerStripped(version, u) ==
  SemVerCore(version, Before(u, "+"), IdentifiersAfter(u, "+"))

SemVer(version) == SemVerStripped(version, StripV(Trim(version)))

\* -1, 0 or 1
compareNumbers(a, b) == IF a < b THEN -1 ELSE IF a > b THEN 1 ELSE 0

compareMain(a, b) ==
  IF compareNumbers(a.major, b.major) # 0 THEN compareNumbers(a.major, b.major)
  ELSE IF compareNumbers(a.minor, b.minor) # 0 THEN compareNumbers(a.minor, b.minor)
  ELSE compareNumbers(a.patch, b.patch)

\* character codes, for the string comparison of two prerelease identifiers
AsciiOrder ==
  << "-", "0","1","2","3","4","5","6","7","8","9",
     "A","B","C","D","E","F","G","H","I","J","K","L","M",
     "N","O","P","Q","R","S","T","U","V","W","X","Y","Z",
     "a","b","c","d","e","f","g","h","i","j","k","l","m",
     "n","o","p","q","r","s","t","u","v","w","x","y","z" >>

CharCode(c) == CHOOSE i \in 1..Len(AsciiOrder) : AsciiOrder[i] = c

RECURSIVE compareStrings(_, _)
compareStrings(a, b) ==
  IF a = << >> /\ b = << >> THEN 0
  ELSE IF a = << >> THEN -1
  ELSE IF b = << >> THEN 1
  ELSE IF Head(a) # Head(b) THEN compareNumbers(CharCode(Head(a)), CharCode(Head(b)))
  ELSE compareStrings(Tail(a), Tail(b))

\* numeric identifiers order by value and before the others
compareIdentifiers(a, b) ==
  LET anum == \A i \in 1..Len(a) : IsDigit(a[i])
      bnum == \A i \in 1..Len(b) : IsDigit(b[i])
  IN IF anum /\ bnum THEN compareNumbers(ToNumber(a), ToNumber(b))
     ELSE IF anum THEN -1
     ELSE IF bnum THEN 1
     ELSE compareStrings(a, b)

RECURSIVE comparePrereleaseFrom(_, _, _)
comparePrereleaseFrom(a, b, i) ==
  IF i > Len(a) /\ i > Len(b) THEN 0
  ELSE IF i > Len(b) THEN 1
  ELSE IF i > Len(a) THEN -1
  ELSE IF a[i] = b[i] THEN comparePrereleaseFrom(a, b, i + 1)
  ELSE compareIdentifiers(a[i], b[i])

\* a version with a prerelease precedes the same version without one
comparePre(a, b) ==
  IF a.prerelease # << >> /\ b.prerelease = << >> THEN -1
  ELSE IF a.prerelease = << >> /\ b.prerelease # << >> THEN 1
  ELSE IF a.prerelease = << >> /\ b.prerelease = << >> THEN 0
  ELSE comparePrereleaseFrom(a.prerelease, b.prerelease, 1)

compare(a, b) ==
  IF compareMain(a, b) # 0 THEN compareMain(a, b) ELSE comparePre(a, b)

\* semver.lt(a, b): compare(a, b) < 0, or the message of the TypeError thrown
ltVersions(va, vb) ==
  IF va.threw THEN [threw |-> TRUE, value |-> FALSE, message |-> va.message]
  ELSE IF vb.threw THEN [threw |-> TRUE, value |-> FALSE, message |-> vb.message]
  ELSE [threw |-> FALSE, value |-> compare(va, vb) < 0, message |-> << >>]

\* semver.lte(a, b): compare(a, b) <= 0
semverLte(a, b) ==
  [threw |-> SemVer(a).threw, message |-> SemVer(a).message,
   value |-> ~SemVer(a).threw /\ compare(SemVer(a), SemVer(b)) <= 0]

semverLt(a, b) == ltVersions(SemVer(a), SemVer(b))

(* -------------------------------------------------- formIncludedWorkflow *)
IncludedThreshold == <<"6",".","0",".","0">>

\* variant of IncludedIsSkipped: semver.lte is called, not semver.lt
IncludedIsSkippedLte(tag) == semverLte(tag, IncludedThreshold)

\* variant of IncludedIsSkipped: a tag semver rejects counts as skipped
IncludedIsSkippedQuietly(tag) ==
  IF semverLt(tag, IncludedThreshold).threw
  THEN [threw |-> FALSE, value |-> TRUE, message |-> << >>]
  ELSE semverLt(tag, IncludedThreshold)

IncludedIsSkipped(tag) == semverLt(tag, IncludedThreshold)

IncludedIsIncluded(imageAndTag) == ~(IncludedIsSkipped(imageAndTag.tag).value)

IncludedJob(imageAndTag) ==
  << "      - build-included-image:\n", "          name: \"included " >>
    \o imageAndTag.tag \o << "\"\n", "          dockerTag: \"" >>
    \o imageAndTag.tag \o << "\"\n" >>

IncludedWorkflowName == << "  build-included-images:\n", "    jobs:\n" >>

\* filter calls isSkipped on the images in order: the first tag semver rejects
\* ends the call with its TypeError
formIncludedWorkflow(images) ==
  LET fails == {i \in 1..Len(images) : IncludedIsSkipped(images[i].tag).threw}
      kept  == SelectSeq(images, IncludedIsIncluded)
      yml   == [i \in 1..Len(kept) |-> IncludedJob(kept[i])]
  IN IF fails # {}
     THEN [threw |-> TRUE, text |-> << >>,
           message |-> IncludedIsSkipped(images[MinOf(fails)].tag).message]
     ELSE [threw |-> FALSE, text |-> IncludedWorkflowName \o Join(yml), message |-> << >>]

(* ------------------------------------------------------- writeConfigFile *)
\* variant of ConfigText: the browser and the included block change places
ConfigTextIncludedFirst(EOL, baseT, browsersT, includedT) ==
  Trim(preamble) \o << EOL >> \o baseT \o << EOL >> \o includedT \o << EOL >> \o browsersT

\* preamble.trim() + os.EOL + base + os.EOL + browsers + os.EOL + included
ConfigText(EOL, baseT, browsersT, includedT) ==
  Trim(preamble) \o << EOL >> \o baseT \o << EOL >> \o browsersT \o << EOL >> \o includedT

\* variant of writeFileSync: the text is added to what the file holds
appendFileSync(old, text) == [exists |-> TRUE, text |-> old.text \o text]

\* fs.writeFileSync('circle.yml', text, 'utf8'): the file holds text and nothing else
writeFileSync(old, text) == [exists |-> TRUE, text |-> text]

(* ------------------------------------------------------------ the scans *)
Roots == {"base", "browsers", "included"}

\* variant of globby: a pattern that matches nothing is returned itself
globbyNonull(tree, root) ==
  IF tree[root].exists /\ tree[root].dirs # << >>
  THEN [i \in 1..Len(tree[root].dirs) |-> << root, "/" >> \o tree[root].dirs[i]]
  ELSE << << root, "/", "*" >> >>

\* globby(root + '/*', {onlyDirectories: true}): the paths of the subdirectories
\* of root, none when root does not exist
globby(tree, root) ==
  IF tree[root].exists
  THEN [i \in 1..Len(tree[root].dirs) |-> << root, "/" >> \o tree[root].dirs[i]]
  ELSE << >>

splitImageFolderName(folderName) ==
  LET parts == Split(folderName, "/")
  IN [name |-> parts[1], tag |-> parts[2]]

ScanImages(tree, root) ==
  LET paths == globby(tree, root)
  IN [i \in 1..Len(paths) |-> splitImageFolderName(paths[i])]

(* ----------------------------------------------- the directory trees tried *)
\* subdirectories of base/
Base6 == <<"6">>

Base14 == <<"1","4",".","7",".","0">>

BaseLibgbm == <<"1","2",".","0",".","0","-","l","i","b","g","b","m">>

BaseManjaro == <<"m","a","n","j","a","r","o","-","1","4",".","1","2",".","0">>

BaseTags == {Base6, Base14, BaseLibgbm, BaseManjaro}

\* subdirectories of browsers/
BrowserChrome69 == <<"c","h","r","o","m","e","6","9">>

BrowserChrome84 == <<"n","o","d","e","1","4",".","7",".","0","-","c","h","r","o","m","e","8","4">>

BrowserChromeFf == <<"n","o","d","e","1","2",".","1","8",".","3","-","c","h","r","o","m","e","8","3","-","f","f","7","7">>

BrowserEdge == <<"n","o","d","e","1","4",".","1","0",".","1","-","e","d","g","e","8","8">>

BrowserNone == <<"f","i","r","e","f","o","x","8","0">>

BrowserTags == {BrowserChrome69, BrowserChrome84, BrowserChromeFf, BrowserEdge, BrowserNone}

\* subdirectories of included/
Included540 == <<"5",".","4",".","0">>

Included600 == <<"6",".","0",".","0">>

Included700 == <<"7",".","0",".","0">>

Included1000 == <<"1","0",".","0",".","0">>

Included600rc == <<"6",".","0",".","0","-","r","c","1">>

Included60 == <<"6",".","0">>

IncludedV610 == <<"v","6",".","1",".","0">>

IncludedTags ==
  {Included540, Included600, Included700, Included1000, Included600rc, Included60,
   IncludedV610}

\* the sequences of k distinct elements of U
Listings(U, k) ==
  {s \in [1..k -> U] : \A i, j \in 1..k : i # j => s[i] # s[j]}

\* a root directory with k subdirectories; an empty one may also be missing
RootDirs(U, k) ==
  {[exists |-> TRUE, dirs |-> s] : s \in Listings(U, k)}
    \cup (IF k = 0 THEN {[exists |-> FALSE, dirs |-> << >>]} ELSE {})

DirCounts ==
  {k \in (0..MaxDirs) \X (0..MaxDirs) \X (0..MaxDirs) : k[1] + k[2] + k[3] <= MaxDirs}

FileTrees ==
  UNION { { [base |-> b, browsers |-> w, included |-> n] :
              b \in RootDirs(BaseTags, k[1]),
              w \in RootDirs(BrowserTags, k[2]),
              n \in RootDirs(IncludedTags, k[3]) } : k \in DirCounts }

NoFile == [exists |-> FALSE, text |-> << >>]

\* circle.yml after somebody has edited it by hand
EditedFile == [exists |-> TRUE, text |-> << "# edited by hand\n" >>]

\* os.EOL
EOLs == {"\n", "\r\n"}

(* --------------------------------------------------------------- the run *)
Log(text) == [text |-> text, images |-> << >>]

Dump(images) == [text |-> "", images |-> images]

Init ==
  /\ fs \in FileTrees
  /\ eol \in EOLs
  /\ file = NoFile
  /\ before = file
  /\ pc = "scanBase"
  /\ base = << >>
  /\ browsers = << >>
  /\ included = << >>
  /\ baseText = << >>
  /\ browsersText = << >>
  /\ includedText = << >>
  /\ console = << >>
  /\ error = << >>
  /\ writes = 0
  /\ runs = << >>

ScanBase ==
  /\ pc = "scanBase"
  /\ base' = ScanImages(fs, "base")
  /\ console' = console \o << Log(" *** base images ***"), Dump(base') >>
  /\ pc' = "scanBrowsers"
  /\ UNCHANGED <<fs, eol, file, before, browsers, included,
                 baseText, browsersText, includedText, error, writes, runs>>

ScanBrowsers ==
  /\ pc = "scanBrowsers"
  /\ browsers' = ScanImages(fs, "browsers")
  /\ console' = console \o << Log(" *** browser images ***"), Dump(browsers') >>
  /\ pc' = "scanIncluded"
  /\ UNCHANGED <<fs, eol, file, before, base, included,
                 baseText, browsersText, includedText, error, writes, runs>>

\* variant of ScanIncluded: the included images are not printed before
\* writeConfigFile is called
ScanIncludedUnprinted ==
  /\ pc = "scanIncluded"
  /\ included' = ScanImages(fs, "included")
  /\ pc' = "formBase"
  /\ UNCHANGED <<fs, eol, file, before, base, browsers, console,
                 baseText, browsersText, includedText, error, writes, runs>>

\* the last scan; main then calls writeConfigFile(base, browsers, included)
ScanIncluded ==
  /\ pc = "scanIncluded"
  /\ included' = ScanImages(fs, "included")
  /\ console' = console \o << Log(" *** included images ***"), Dump(included') >>
  /\ pc' = "formBase"
  /\ UNCHANGED <<fs, eol, file, before, base, browsers,
                 baseText, browsersText, includedText, error, writes, runs>>

\* variant of FormBase: the block is saved to circle.yml as soon as it is formed
FormBaseSavingBlock ==
  /\ pc = "formBase"
  /\ baseText' = formBaseWorkflow(base)
  /\ file' = [exists |-> TRUE, text |-> baseText']
  /\ pc' = "formBrowsers"
  /\ UNCHANGED <<fs, eol, before, base, browsers, included,
                 browsersText, includedText, console, error, writes, runs>>

\* variant of FormBase: the included workflow is formed next, not the browsers'
FormBaseThenIncluded ==
  /\ pc = "formBase"
  /\ baseText' = formBaseWorkflow(base)
  /\ pc' = "formIncluded"
  /\ UNCHANGED <<fs, eol, file, before, base, browsers, included,
                 browsersText, includedText, console, error, writes, runs>>

FormBase ==
  /\ pc = "formBase"
  /\ baseText' = formBaseWorkflow(base)
  /\ pc' = "formBrowsers"
  /\ UNCHANGED <<fs, eol, file, before, base, browsers, included,
                 browsersText, includedText, console, error, writes, runs>>

\* an Error thrown inside writeConfigFile rejects the promise of main: the run
\* ends there, with the message reported
Ended(outcome, final, message) ==
  [outcome |-> outcome, before |-> before, final |-> final, message |-> message]

FormBrowsers ==
  /\ pc = "formBrowsers"
  /\ LET r == formBrowserWorkflow(browsers)
     IN IF r.threw
        THEN /\ pc' = "aborted"
             /\ error' = r.message
             /\ runs' = Append(runs, Ended("aborted", file, r.message))
             /\ UNCHANGED browsersText
        ELSE /\ pc' = "formIncluded"
             /\ browsersText' = r.text
             /\ UNCHANGED <<error, runs>>
  /\ UNCHANGED <<fs, eol, file, before, base, browsers, included,
                 baseText, includedText, console, writes>>

FormIncluded ==
  /\ pc = "formIncluded"
  /\ LET r == formIncludedWorkflow(included)
     IN IF r.threw
        THEN /\ pc' = "aborted"
             /\ error' = r.message
             /\ runs' = Append(runs, Ended("aborted", file, r.message))
             /\ UNCHANGED includedText
        ELSE /\ pc' = "write"
             /\ includedText' = r.text
             /\ UNCHANGED <<error, runs>>
  /\ UNCHANGED <<fs, eol, file, before, base, browsers, included,
                 baseText, browsersText, console, writes>>

WriteFile ==
  /\ pc = "write"
  /\ file' = writeFileSync(file, ConfigText(eol, baseText, browsersText, includedText))
  /\ writes' = writes + 1
  /\ console' = Append(console, Log("generated circle.yml"))
  /\ pc' = "done"
  /\ runs' = Append(runs, Ended("done", file', << >>))
  /\ UNCHANGED <<fs, eol, before, base, browsers, included,
                 baseText, browsersText, includedText, error>>

\* what a process of the script holds when it starts
Fresh ==
  /\ base' = << >>
  /\ browsers' = << >>
  /\ included' = << >>
  /\ baseText' = << >>
  /\ browsersText' = << >>
  /\ includedText' = << >>
  /\ console' = << >>
  /\ error' = << >>
  /\ writes' = 0

\* the script is run again over the same directories
StartRun ==
  /\ pc \in {"done", "aborted", "idle"}
  /\ Len(runs) < MaxRuns
  /\ pc' = "scanBase"
  /\ before' = file
  /\ Fresh
  /\ UNCHANGED <<fs, eol, file, runs>>

\* between two runs, the process gone, somebody edits circle.yml by hand
EditOutput ==
  /\ pc \in {"done", "aborted", "idle"}
  /\ Len(runs) < MaxRuns
  /\ file # EditedFile
  /\ file' = EditedFile
  /\ pc' = "idle"
  /\ before' = file'
  /\ Fresh
  /\ UNCHANGED <<fs, eol, runs>>

Next ==
  \/ ScanBase
  \/ ScanBrowsers
  \/ ScanIncluded
  \/ FormBase
  \/ FormBrowsers
  \/ FormIncluded
  \/ WriteFile
  \/ StartRun
  \/ EditOutput

Spec == Init /\ [][Next]_vars

(* ------------------------------------------------------------ properties *)
\* the tags of a scanned collection
Tags(images) == {images[i].tag : i \in 1..Len(images)}

\* how many times the text pat (not empty) occurs in the text doc
Occurrences(doc, pat) ==
  Cardinality({i \in 1..(Len(doc) - Len(pat) + 1) :
                 doc[i] = pat[1] /\ SubSeq(doc, i, i + Len(pat) - 1) = pat})

\* the job block of tag t in the workflow of a category, as circle.yml shows it
JobBlock(job, category, t) ==
  << "      - " \o job \o ":\n", "          name: \"" \o category \o " " >>
    \o t \o << "\"\n", "          dockerTag: \"" >> \o t \o << "\"\n" >>

BaseBlock(t) == JobBlock("build-base-image", "base", t)

BrowserBlock(t) == JobBlock("build-browser-image", "browsers", t)

IncludedBlock(t) == JobBlock("build-included-image", "included", t)

\* what is expected of the directory names tried, read off the names themselves
ExpectedBaseSkipped == {Base6}

ExpectedBrowserSkipped == {BrowserChrome69}

ExpectedNoBrowser == {BrowserNone}

ExpectedBefore6 == {Included540, Included600rc}

\* 6.0 has two numbers only; v6.1.0 is a version to semver, which allows the v
ExpectedNotSemver == {Included60}

\* 1 for a tag that was scanned and is not skipped, 0 for any other
ExpectedBlocks(t, images, skipped) ==
  IF t \in Tags(images) /\ t \notin skipped THEN 1 ELSE 0

\* C1: the written document holds exactly one job block (name and dockerTag
\* equal to the tag) for every scanned tag its category does not skip, none for
\* a skipped tag, and no job block besides these
C1_OneJobBlockPerKeptTag ==
  pc = "done" =>
    /\ \A t \in BaseTags :
         Occurrences(file.text, BaseBlock(t)) = ExpectedBlocks(t, base, ExpectedBaseSkipped)
    /\ \A t \in BrowserTags :
         Occurrences(file.text, BrowserBlock(t))
           = ExpectedBlocks(t, browsers, ExpectedBrowserSkipped)
    /\ \A t \in IncludedTags :
         Occurrences(file.text, IncludedBlock(t))
           = ExpectedBlocks(t, included, ExpectedBefore6)
    /\ Occurrences(file.text, << "      - build-base-image:\n" >>)
         = Cardinality(Tags(base) \ ExpectedBaseSkipped)
    /\ Occurrences(file.text, << "      - build-browser-image:\n" >>)
         = Cardinality(Tags(browsers) \ ExpectedBrowserSkipped)
    /\ Occurrences(file.text, << "      - build-included-image:\n" >>)
         = Cardinality(Tags(included) \ ExpectedBefore6)

\* a document written from a base collection with a skipped and a kept tag
C1_Witness ==
  /\ pc = "done"
  /\ Base6 \in Tags(base)
  /\ Base14 \in Tags(base)
  /\ Occurrences(file.text, BaseBlock(Base14)) = 1

\* C2: a browser tag in which no browser marker occurs ends the run with an
\* error: the run never goes past formBrowserWorkflow, forms no browser block
\* and writes nothing
C2_UnclassifiableBrowserTagAborts ==
  (Tags(browsers) \cap ExpectedNoBrowser # {}) =>
    /\ pc \in {"scanIncluded", "formBase", "formBrowsers", "aborted"}
    /\ browsersText = << >>
    /\ writes = 0
    /\ pc = "aborted" => (error # << >> /\ file = before)

\* the run has ended on the tag firefox80
C2_Witness ==
  /\ pc = "aborted"
  /\ BrowserNone \in Tags(browsers)

\* C3: within a run the output file changes in one step only, the write of the
\* complete document made after the three blocks are formed; a run that has
\* aborted has written nothing and left the file as it was
C3_SingleWriteOfCompleteDocument ==
  [][ /\ (pc \notin {"done", "aborted", "idle"} /\ (file' # file \/ writes' # writes)) =>
           /\ pc = "write"
           /\ pc' = "done"
           /\ writes = 0
           /\ writes' = 1
           /\ Occurrences(baseText, BaseWorkflowName) = 1
           /\ Occurrences(browsersText, BrowserWorkflowName) = 1
           /\ Occurrences(includedText, IncludedWorkflowName) = 1
           /\ file'.exists
           /\ Occurrences(file'.text, baseText) = 1
           /\ Occurrences(file'.text, browsersText) = 1
           /\ Occurrences(file'.text, includedText) = 1
      /\ pc' = "aborted" => (writes' = 0 /\ file' = before') ]_vars

\* a run that found circle.yml edited by hand has aborted and left it so
C3_Witness ==
  /\ pc = "aborted"
  /\ file.exists
  /\ file = before
  /\ writes = 0

\* C4: an included tag gets a job block exactly when it was scanned and is not
\* ordered before 6.0.0: 5.4.0 and the prerelease 6.0.0-rc1 get none, 6.0.0,
\* 7.0.0, 10.0.0 and v6.1.0 get one
C4_IncludedSkippedBelowThreshold ==
  pc = "done" =>
    /\ Occurrences(file.text, IncludedBlock(Included540)) = 0
    /\ Occurrences(file.text, IncludedBlock(Included600rc)) = 0
    /\ \A t \in {Included600, Included700, Included1000, IncludedV610} :
         Occurrences(file.text, IncludedBlock(t)) = (IF t \in Tags(included) THEN 1 ELSE 0)

\* a document written with 5.4.0 and 6.0.0 both scanned
C4_Witness ==
  /\ pc = "done"
  /\ Included540 \in Tags(included)
  /\ Included600 \in Tags(included)
  /\ Occurrences(file.text, IncludedBlock(Included600)) = 1

\* C5: an included tag that is no semantic version ends the run with an error:
\* no included block is formed and nothing is written
C5_InvalidVersionAborts ==
  (Tags(included) \cap ExpectedNotSemver # {}) =>
    /\ pc \in {"formBase", "formBrowsers", "formIncluded", "aborted"}
    /\ includedText = << >>
    /\ writes = 0
    /\ pc = "aborted" => (error # << >> /\ file = before)

\* the run has ended on the tag 6.0, the browser block already formed
C5_Witness ==
  /\ pc = "aborted"
  /\ Included60 \in Tags(included)
  /\ browsersText # << >>

CheckNodeVersionLine == << "          checkNodeVersion: false\n" >>

ExpectedCustomBase == {BaseLibgbm, BaseManjaro}

\* C6 as claimed: the blocks of 12.0.0-libgbm and manjaro-14.12.0 carry no
\* checkNodeVersion parameter and every other base block carries one
C6_Claimed_CustomOmitOthersInclude ==
  pc = "done" =>
    \A t \in Tags(base) \ ExpectedBaseSkipped :
      Occurrences(file.text, BaseBlock(t) \o CheckNodeVersionLine)
        = (IF t \in ExpectedCustomBase THEN 0 ELSE 1)

\* C6 amended: the blocks of 12.0.0-libgbm and manjaro-14.12.0 end with the
\* line checkNodeVersion: false, and no other line of the document names
\* checkNodeVersion
C6_CustomCarryFalseOthersNone ==
  pc = "done" =>
    /\ \A t \in Tags(base) \ ExpectedBaseSkipped :
         Occurrences(file.text, BaseBlock(t) \o CheckNodeVersionLine)
           = (IF t \in ExpectedCustomBase THEN 1 ELSE 0)
    /\ Occurrences(file.text, CheckNodeVersionLine)
         = Cardinality(Tags(base) \cap ExpectedCustomBase)

\* a document written for manjaro-14.12.0 and 14.7.0
C6_Witness ==
  /\ pc = "done"
  /\ BaseManjaro \in Tags(base)
  /\ Base14 \in Tags(base)
  /\ Occurrences(file.text, BaseBlock(BaseManjaro) \o CheckNodeVersionLine) = 1

\* the first position of the text pat in the text doc, 0 when absent
Position(doc, pat) ==
  IF Occurrences(doc, pat) = 0 THEN 0
  ELSE MinOf({i \in 1..(Len(doc) - Len(pat) + 1) :
                doc[i] = pat[1] /\ SubSeq(doc, i, i + Len(pat) - 1) = pat})

\* C7: the written document is the preamble without its outer line breaks, the
\* base block, the browser block and the included block, in this order, with
\* one line terminator between neighbours
C7_FixedOrderOfParts ==
  pc = "done" =>
    /\ file.text = << preamble[2], eol >> \o baseText \o << eol >> \o browsersText
                     \o << eol >> \o includedText
    /\ SubSeq(baseText, 1, 2) = BaseWorkflowName
    /\ SubSeq(browsersText, 1, 2) = BrowserWorkflowName
    /\ SubSeq(includedText, 1, 2) = IncludedWorkflowName
    /\ Position(file.text, BaseWorkflowName) = 3
    /\ Position(file.text, BaseWorkflowName) < Position(file.text, BrowserWorkflowName)
    /\ Position(file.text, BrowserWorkflowName) < Position(file.text, IncludedWorkflowName)

\* a document written with one browser tag and one included tag
C7_Witness ==
  /\ pc = "done"
  /\ Len(browsers) = 1
  /\ Len(included) = 1
  /\ Position(file.text, BrowserBlock(browsers[1].tag))
       < Position(file.text, IncludedBlock(included[1].tag))

\* C8 as claimed: two runs over the same directories end with the same content
\* of circle.yml, whatever it held before each of them
C8_Claimed_RunsEndWithSameFile ==
  \A i, j \in 1..Len(runs) : runs[i].final = runs[j].final

\* C8 amended: two runs over the same directories end the same way; two runs
\* that write end with the same content of circle.yml whatever it held before
\* each of them, being the whole-file replacement by the same document; a run
\* that aborts ends with the content it found
C8_CompletedRunsEndWithSameFile ==
  \A i, j \in 1..Len(runs) :
    /\ runs[i].outcome = runs[j].outcome
    /\ runs[i].message = runs[j].message
    /\ runs[i].outcome = "done" => runs[i].final = runs[j].final
    /\ runs[i].outcome = "aborted" => runs[i].final = runs[i].before

\* two runs have written, the second one over a file edited in between
C8_Witness ==
  /\ Len(runs) >= 2
  /\ runs[1].outcome = "done"
  /\ runs[2].outcome = "done"
  /\ runs[2].before # runs[1].final
  /\ runs[2].final = runs[1].final

\* the root directories missing from the tree
MissingRoots == {r \in Roots : ~fs[r].exists}

\* the tags under the roots that make a run fail
FailingDirs ==
  (Tags([i \in 1..Len(fs.browsers.dirs) |-> [tag |-> fs.browsers.dirs[i]]])
     \cap ExpectedNoBrowser)
  \cup
  (Tags([i \in 1..Len(fs.included.dirs) |-> [tag |-> fs.included.dirs[i]]])
     \cap ExpectedNotSemver)

\* C9: a missing root directory is scanned as an empty collection and does not
\* fail the run: the run aborts only on a tag of another directory, and the
\* document written holds the workflow header of the missing category directly
\* followed by the next part
C9_MissingRootIsEmptyCategory ==
  /\ ("base" \in MissingRoots /\ pc \notin {"scanBase", "idle"}) => base = << >>
  /\ ("browsers" \in MissingRoots /\ pc \notin {"scanBase", "scanBrowsers", "idle"}) =>
       browsers = << >>
  /\ (MissingRoots # {} /\ pc = "aborted") => FailingDirs # {}
  /\ (MissingRoots # {} /\ FailingDirs = {} /\ pc \notin {"idle"}) => pc # "aborted"
  /\ pc = "done" =>
       /\ "base" \in MissingRoots =>
            Occurrences(file.text, BaseWorkflowName \o << eol >> \o BrowserWorkflowName) = 1
       /\ "browsers" \in MissingRoots =>
            Occurrences(file.text, BrowserWorkflowName \o << eol >> \o IncludedWorkflowName) = 1
       /\ "included" \in MissingRoots =>
            /\ included = << >>
            /\ SubSeq(file.text, Len(file.text) - 1, Len(file.text)) = IncludedWorkflowName

\* a document written with browsers/ missing and the other two roots populated
C9_Witness ==
  /\ pc = "done"
  /\ MissingRoots = {"browsers"}
  /\ base # << >>
  /\ included # << >>
  /\ file.exists

\* the text pat occurs in the text doc
Contains(doc, pat) == Occurrences(doc, pat) > 0

\* the tag a run over the scanned collections fails on: the first browser tag
\* without a browser, else the first included tag that is no version
OffendingBrowserTags == {i \in 1..Len(browsers) : browsers[i].tag \in ExpectedNoBrowser}

OffendingIncludedTags == {i \in 1..Len(included) : included[i].tag \in ExpectedNotSemver}

\* C10 as claimed: the message of an aborted run names the offending tag and
\* the category it belongs to
C10_Claimed_MessageNamesTagAndCategory ==
  pc = "aborted" =>
    IF OffendingBrowserTags # {}
    THEN /\ Contains(error, browsers[MinOf(OffendingBrowserTags)].tag)
         /\ Contains(error, << "browsers" >>)
    ELSE /\ Contains(error, included[MinOf(OffendingIncludedTags)].tag)
         /\ Contains(error, << "included" >>)

\* C10 amended: the message of an aborted run names the offending tag; for a
\* browser tag it reads Cannot find any browsers from image tag "<tag>", for an
\* included tag it is semver's Invalid Version: <tag>, which names no category
C10_MessageNamesTag ==
  pc = "aborted" =>
    IF OffendingBrowserTags # {}
    THEN error = << "Cannot find any ", "browsers", " from image tag \"" >>
                   \o browsers[MinOf(OffendingBrowserTags)].tag \o << "\"" >>
    ELSE /\ OffendingIncludedTags # {}
         /\ error = << "Invalid Version: " >> \o included[MinOf(OffendingIncludedTags)].tag
         /\ ~Contains(error, << "included" >>)

\* a run aborted on the included tag 6.0
C10_Witness ==
  /\ pc = "aborted"
  /\ OffendingBrowserTags = {}
  /\ included # << >>
  /\ Contains(error, Included60)

(* ------------------------------------------- the browser tags, one by one *)
\* more subdirectories of browsers/: every set of markers a tag can hold
BrowserFf == <<"n","o","d","e","1","4",".","7",".","0","-","f","f","8","0">>

BrowserChromeEdge == <<"n","o","d","e","1","4",".","1","0",".","1","-","c","h","r","o","m","e","8","5","-","e","d","g","e","8","8">>

BrowserFfEdge == <<"n","o","d","e","1","4",".","1","0",".","1","-","f","f","8","1","-","e","d","g","e","8","8">>

BrowserAll == <<"n","o","d","e","1","4",".","7",".","0","-","c","h","r","o","m","e","8","4","-","f","f","8","0","-","e","d","g","e","8","8">>

AllBrowserTags ==
  BrowserTags \cup {BrowserFf, BrowserChromeEdge, BrowserFfEdge, BrowserAll}

\* trees with subdirectories under browsers/ only
BrowserTrees ==
  { [base |-> [exists |-> TRUE, dirs |-> << >>], browsers |-> w,
     included |-> [exists |-> TRUE, dirs |-> << >>]] :
      w \in UNION {RootDirs(AllBrowserTags, k) : k \in 0..MaxDirs} }

InitBrowsers ==
  /\ fs \in BrowserTrees
  /\ eol \in EOLs
  /\ file = NoFile
  /\ before = file
  /\ pc = "scanBase"
  /\ base = << >>
  /\ browsers = << >>
  /\ included = << >>
  /\ baseText = << >>
  /\ browsersText = << >>
  /\ includedText = << >>
  /\ console = << >>
  /\ error = << >>
  /\ writes = 0
  /\ runs = << >>

SpecBrowsers == InitBrowsers /\ [][Next]_vars

\* the digits expected after chrome, -ff and -edge in a tag, << >> for none
ExpectedChrome(t) ==
  CASE t = BrowserChrome69 -> <<"6","9">>
    [] t = BrowserChrome84 -> <<"8","4">>
    [] t = BrowserChromeFf -> <<"8","3">>
    [] t = BrowserChromeEdge -> <<"8","5">>
    [] t = BrowserAll -> <<"8","4">>
    [] OTHER -> << >>

ExpectedFirefox(t) ==
  CASE t = BrowserChromeFf -> <<"7","7">>
    [] t = BrowserFf -> <<"8","0">>
    [] t = BrowserFfEdge -> <<"8","1">>
    [] t = BrowserAll -> <<"8","0">>
    [] OTHER -> << >>

ExpectedEdge(t) ==
  CASE t = BrowserEdge -> <<"8","8">>
    [] t = BrowserChromeEdge -> <<"8","8">>
    [] t = BrowserFfEdge -> <<"8","8">>
    [] t = BrowserAll -> <<"8","8">>
    [] OTHER -> << >>

\* a parameter line of a browser job block, none for no digits
VersionLine(parameter, vendor, digits) ==
  IF digits = << >> THEN << >>
  ELSE << "          " \o parameter \o ": \"", vendor \o " " >> \o digits \o << "\"\n" >>

ExpectedVersionLines(t) ==
  VersionLine("chromeVersion", "Google Chrome", ExpectedChrome(t))
    \o VersionLine("firefoxVersion", "Mozilla Firefox", ExpectedFirefox(t))
    \o VersionLine("edgeVersion", "Microsoft Edge", ExpectedEdge(t))

\* the scanned browser tags that are not skipped
KeptBrowserTags == Tags(browsers) \ ExpectedBrowserSkipped

\* C11: the job block of a kept browser tag carries chromeVersion exactly when
\* chrome<digits> occurs in the tag, firefoxVersion exactly when -ff<digits>
\* occurs and edgeVersion exactly when -edge<digits> occurs, each with the
\* vendor's name before the digits; the seven sets of markers all occur
C11_MarkersDetectedIndependently ==
  pc = "done" =>
    /\ \A t \in KeptBrowserTags :
         Occurrences(file.text, BrowserBlock(t) \o ExpectedVersionLines(t)) = 1
    /\ Occurrences(file.text, << "          chromeVersion: \"" >>)
         = Cardinality({t \in KeptBrowserTags : ExpectedChrome(t) # << >>})
    /\ Occurrences(file.text, << "          firefoxVersion: \"" >>)
         = Cardinality({t \in KeptBrowserTags : ExpectedFirefox(t) # << >>})
    /\ Occurrences(file.text, << "          edgeVersion: \"" >>)
         = Cardinality({t \in KeptBrowserTags : ExpectedEdge(t) # << >>})

\* a document written with a block that carries the three parameters and a
\* block that carries firefoxVersion and edgeVersion without chromeVersion
C11_Witness ==
  /\ pc = "done"
  /\ BrowserAll \in Tags(browsers)
  /\ BrowserFfEdge \in Tags(browsers)
  /\ Occurrences(file.text, BrowserBlock(BrowserAll) \o ExpectedVersionLines(BrowserAll)) = 1
  /\ Len(ExpectedVersionLines(BrowserAll)) = 15
  /\ Len(ExpectedVersionLines(BrowserFfEdge)) = 10

\* the subdirectory names of a root, as a scan of it must report them
ScannedTags(images) == [i \in 1..Len(images) |-> images[i].tag]

\* a block has been formed or the file written, or the run is at or past the
\* first call that forms a block
EmissionBegun ==
  \/ pc \in {"formBase", "formBrowsers", "formIncluded", "write", "done", "aborted"}
  \/ baseText # << >>
  \/ browsersText # << >>
  \/ includedText # << >>
  \/ writes > 0

\* C12: before any workflow block is formed and before circle.yml is written,
\* the three scans are complete and the three collections have been printed,
\* base first, then browsers, then included
C12_ScansPrintedBeforeEmission ==
  EmissionBegun =>
    /\ ScannedTags(base) = fs.base.dirs
    /\ ScannedTags(browsers) = fs.browsers.dirs
    /\ ScannedTags(included) = fs.included.dirs
    /\ Len(console) >= 6
    /\ console[1].text = " *** base images ***"
    /\ console[2].images = base
    /\ console[3].text = " *** browser images ***"
    /\ console[4].images = browsers
    /\ console[5].text = " *** included images ***"
    /\ console[6].images = included
    /\ (writes > 0 <=> Len(console) = 7)

\* the run is about to write, base and included tags scanned and printed
C12_Witness ==
  /\ pc = "write"
  /\ writes = 0
  /\ Len(console) = 6
  /\ console[2].images # << >>
  /\ console[6].images # << >>
  /\ includedText # << >>

\* the scanned browser tags that are in the browser skip list
SkippedBrowserTags == Tags(browsers) \cap ExpectedBrowserSkipped

BrowserBrave == <<"n","o","d","e","1","2",".","1","3",".","0","-","b","r","a","v","e","7","8">>

\* a second subdirectory of included/ that is no version
IncludedLatest == <<"l","a","t","e","s","t">>

FailureBrowserTags == {BrowserNone, BrowserBrave, BrowserChrome84}

FailureIncludedTags == {Included60, IncludedLatest, Included700}

\* trees with up to MaxDirs subdirectories under browsers/ and under included/,
\* failing ones among them, and base/ empty or with one subdirectory
FailureTrees ==
  { [base |-> b, browsers |-> w, included |-> n] :
      b \in RootDirs({Base14}, 0) \cup RootDirs({Base14}, 1),
      w \in UNION {RootDirs(FailureBrowserTags, k) : k \in 0..MaxDirs},
      n \in UNION {RootDirs(FailureIncludedTags, k) : k \in 0..MaxDirs} }

InitFailures ==
  /\ fs \in FailureTrees
  /\ eol \in EOLs
  /\ file = NoFile
  /\ before = file
  /\ pc = "scanBase"
  /\ base = << >>
  /\ browsers = << >>
  /\ included = << >>
  /\ baseText = << >>
  /\ browsersText = << >>
  /\ includedText = << >>
  /\ console = << >>
  /\ error = << >>
  /\ writes = 0
  /\ runs = << >>

SpecFailures == InitFailures /\ [][Next]_vars

\* the positions, in scan order, of the browser tags without a browser and of
\* the included tags that are no version
UnclassifiableAt == {i \in 1..Len(browsers) : browsers[i].tag \in {BrowserNone, BrowserBrave}}

NotSemverAt == {i \in 1..Len(included) : included[i].tag \in {Included60, IncludedLatest}}

\* C14: the base block is always formed; with a browser tag without a browser
\* scanned, the run aborts on the first such tag in scan order, whatever the
\* included tags are, and never reaches the included workflow; an included tag
\* that is no version aborts the run only when every browser tag passed
C14_BrowserFailureFirst ==
  /\ pc \in {"formBrowsers", "formIncluded", "write", "done", "aborted"} =>
       SubSeq(baseText, 1, 2) = BaseWorkflowName
  /\ UnclassifiableAt # {} =>
       /\ pc \notin {"formIncluded", "write", "done"}
       /\ includedText = << >>
  /\ pc = "aborted" =>
       IF UnclassifiableAt # {}
       THEN /\ error = << "Cannot find any ", "browsers", " from image tag \"" >>
                         \o browsers[MinOf(UnclassifiableAt)].tag \o << "\"" >>
            /\ browsersText = << >>
       ELSE /\ NotSemverAt # {}
            /\ error = << "Invalid Version: " >> \o included[MinOf(NotSemverAt)].tag
            /\ SubSeq(browsersText, 1, 2) = BrowserWorkflowName

\* a run aborted on the first of two browser tags without a browser, scanned
\* brave before firefox, with an included tag that is no version scanned too
C14_Witness ==
  /\ pc = "aborted"
  /\ Len(browsers) = 2
  /\ browsers[1].tag = BrowserBrave
  /\ browsers[2].tag = BrowserNone
  /\ NotSemverAt # {}
  /\ Contains(error, BrowserBrave)
  /\ ~Contains(error, BrowserNone)

====
